---- MODULE Spec2Model ----
(***************************************************************************)
(* State-machine model of the fastruments instrument drivers.              *)
(*                                                                         *)
(* Every driver is a synchronous facade over a transport: one driver call  *)
(* is one action.  An action carries the whole handler: the dependency     *)
(* queries it issues, its checks, its writes, and the exception it ends    *)
(* with.  Each <driver>Call variable holds the last call: its arguments,   *)
(* how it ended ("ok" or the name of the exception raised) and io, the     *)
(* sequence of transport operations the call performed, in order.          *)
(*                                                                         *)
(* Units.  Floats are modelled on exact decimal grids:                     *)
(*   QLASS currents      hundredths of a mA   (47.72 mA = 4772)            *)
(*   AFG3011C voltages   millivolts           (9.5 V = 9500)               *)
(*   TBS2204B scales     millivolts per division, gains in tenths          *)
(*   Q8iv values         tenths of a mA / of a volt                        *)
(***************************************************************************)
EXTENDS Integers, Sequences, FiniteSets, TLC

VARIABLES
    ql,        \* CurrentDriver object: inst, do_autoupdate
    qlBoard,   \* QLASS board and its VISA sessions: fsr, live, closes
    qlCall,    \* last CurrentDriver call
    afg,       \* AFG3011C object: inst
    afgDev,    \* function generator and its VISA sessions
    afgCall,   \* last AFG3011C call
    tbs,       \* TBS2204B object: inst
    tbsVisa,   \* VISA sessions of the oscilloscope: live, closes
    tbsCall,   \* last TBS2204B call
    osw,       \* LF_OSW object: inst, channels (model_info['channels'])
    oswDev,    \* optical switch: channel, and its VISA sessions
    oswCall,   \* last LF_OSW call
    q8,        \* Q8iv object: _q, init_mode, imax, vmax
    q8Board,   \* Qontrol board: outputs i and v, compliance registers
    q8Call,    \* last Q8iv call
    xen,       \* Xenics object: _cam, _is_open, _is_capturing, file paths
    xenDll,    \* camera SDK: handles it has open
    xenCall    \* last Xenics call, with the SDK functions it called

qlVars  == <<ql, qlBoard, qlCall>>
afgVars == <<afg, afgDev, afgCall>>
tbsVars == <<tbs, tbsVisa, tbsCall>>
oswVars == <<osw, oswDev, oswCall>>
q8Vars  == <<q8, q8Board, q8Call>>
xenVars == <<xen, xenDll, xenCall>>
vars == <<qlVars, afgVars, tbsVars, oswVars, q8Vars, xenVars>>

\* What the calls of one driver leave alone: the other drivers.
NotQL  == <<afgVars, tbsVars, oswVars, q8Vars, xenVars>>
NotAFG == <<qlVars, tbsVars, oswVars, q8Vars, xenVars>>
NotTBS == <<qlVars, afgVars, oswVars, q8Vars, xenVars>>
NotOSW == <<qlVars, afgVars, tbsVars, q8Vars, xenVars>>
NotQ8  == <<qlVars, afgVars, tbsVars, oswVars, xenVars>>
NotXen == <<qlVars, afgVars, tbsVars, oswVars, q8Vars>>

(***************************************************************************)
(* Bounds of the model.                                                    *)
(***************************************************************************)
\* VISA sessions a driver may hold open at once (a connect() on a connected
\* driver opens a new session and drops the reference to the old one).
MaxSessions == 2
\* close() calls counted on one session.
MaxCloses == 2

Cmd(c) == [cmd |-> c, ch |-> 0, arg |-> 0]
NoCall == [op |-> "none", ch |-> 0, val |-> 0, result |-> "ok", io |-> <<>>, shown |-> 0,
           ret |-> ""]

\* The transport operations of io that put a command on the wire.
Sent(io) == SelectSeq(io, LAMBDA e : e.cmd \notin {"flush", "close", "open"})
SentCmd(io, c) == SelectSeq(io, LAMBDA e : e.cmd = c)


(***************************************************************************)
(* QLASS CurrentDriver (fastruments/QLASSdriver.py)                        *)
(***************************************************************************)
\* Channels of the board: set_current rejects ch >= 16 or ch < 0.
QLASS_NUM_CHANNELS == 16
\* 2**16 - 1, the full-scale DAC level.
DAC_FULL_SCALE == 65535
\* Number of steps of the grid of requested currents.
QLGrid == 4

\* self.ranges: FSR code -> full-scale current, in hundredths of a mA.
ranges == [c \in 0..2 |-> CASE c = 0 -> 277 [] c = 1 -> 2500 [] c = 2 -> 4772]

\* FSR codes the board may report; 3 stands for any code outside 0..2.
QLFsrCodes == 0..3

QLChans == {-1, 0, QLASS_NUM_CHANNELS - 1, QLASS_NUM_CHANNELS}

\* Requested currents (hundredths of a mA): a grid over the largest range,
\* its half (23.86 mA) and the values around every full scale.
QLVals ==
    {-1, ranges[2] \div 2}
    \cup {(k * ranges[2]) \div QLGrid : k \in 0..QLGrid}
    \cup {ranges[c] + d : c \in 0..2, d \in {-1, 0}}

\* val_DAC = int(val / max_current * (2**16 - 1)).  On the grid of hundredths
\* of a mA the double-precision result equals the exact floor for every
\* 0 <= val < max_current of the three ranges.
DacCodeTruncUp(val, max_current) ==
    (val * DAC_FULL_SCALE + max_current - 1) \div max_current
DacCode(val, max_current) == (val * DAC_FULL_SCALE) \div max_current

\* val_mA = int(val * max_current / (2**16 - 1)): whole milliamperes.
LevelToMilliAmp(level, max_current) ==
    (level * max_current) \div (DAC_FULL_SCALE * 100)

\* Requested DAC levels: the limits and the codes of the requested currents.
QLLevels ==
    {-1, 0, DAC_FULL_SCALE, DAC_FULL_SCALE + 1}
    \cup {DacCode((k * ranges[2]) \div QLGrid, ranges[2]) : k \in 0..(QLGrid - 1)}

QLInit ==
    /\ ql = [inst |-> "none", do_autoupdate |-> FALSE]
    /\ qlBoard = [fsr |-> 0, live |-> 0, closes |-> 0]
    /\ qlCall = NoCall

\* The exception a transport operation ends with when self.inst is not an
\* open session: None has no query attribute, a closed session is invalid.
NoSession(inst) == IF inst = "none" THEN "AttributeError" ELSE "InvalidSession"

\* idn(): the $V query; every exception is swallowed and "Unknown device."
\* is returned instead.
CurrentDriver_idn(answered) ==
    [exc |-> "none",
     ret |-> IF answered THEN "idn" ELSE "Unknown device.",
     io  |-> <<Cmd("$V")>>]

\* connect(): open the resource and configure it, then call idn().
CurrentDriver_connect_body(auto, opened, answered) ==
    IF ~opened
    THEN /\ ql' = [ql EXCEPT !.do_autoupdate = auto]
         /\ qlBoard' = qlBoard
         /\ qlCall' = [NoCall EXCEPT !.op = "connect",
                                     !.result = "ConnectionError",
                                     !.io = <<Cmd("open")>>]
    ELSE /\ qlBoard.live < MaxSessions
         /\ ql' = [inst |-> "open", do_autoupdate |-> auto]
         /\ qlBoard' = [qlBoard EXCEPT !.live = @ + 1, !.closes = 0]
         /\ LET r == CurrentDriver_idn(answered)
            IN qlCall' = [NoCall EXCEPT !.op = "connect",
                                        !.result = IF r.exc = "none" THEN "ok"
                                                   ELSE "RuntimeError",
                                        !.io = <<Cmd("open")>> \o r.io,
                                        !.ret = r.ret]

\* __init__: store the parameters, then connect().
CurrentDriver_new ==
    \E auto \in BOOLEAN, opened \in BOOLEAN, answered \in BOOLEAN :
        /\ ql.inst = "none"
        /\ CurrentDriver_connect_body(auto, opened, answered)
        /\ UNCHANGED NotQL

CurrentDriver_connect ==
    \E opened \in BOOLEAN, answered \in BOOLEAN :
        /\ ql.inst # "none"
        /\ CurrentDriver_connect_body(ql.do_autoupdate, opened, answered)
        /\ UNCHANGED NotQL

\* close() of the three PyVISA drivers: self.inst.close() inside try, any
\* exception re-raised as RuntimeError.  There is no guard on the session's
\* state: every call reaches the transport's close.  closed: whether the
\* transport's close returned (on a session that is already closed the
\* transport decides whether a second close raises).
\* Gives the driver's inst, the sessions' counters and the call.
VisaClose(inst, visa, closed) ==
    IF inst = "none"
    THEN [inst |-> inst, live |-> visa.live, closes |-> visa.closes,
          call |-> [NoCall EXCEPT !.op = "close", !.result = "RuntimeError"]]
    ELSE [inst |-> IF closed THEN "closed" ELSE inst,
          live |-> IF closed /\ inst = "open" THEN visa.live - 1 ELSE visa.live,
          closes |-> visa.closes + 1,
          call |-> [NoCall EXCEPT !.op = "close",
                                  !.result = IF closed THEN "ok" ELSE "RuntimeError",
                                  !.io = <<Cmd("close")>>]]

CurrentDriver_close ==
    \E closed \in BOOLEAN :
        LET r == VisaClose(ql.inst, qlBoard, closed)
        IN /\ ql.inst # "none" => qlBoard.closes < MaxCloses
           /\ ql' = [ql EXCEPT !.inst = r.inst]
           /\ qlBoard' = [qlBoard EXCEPT !.live = r.live, !.closes = r.closes]
           /\ qlCall' = r.call
           /\ UNCHANGED NotQL

\* The range property: query $F?, parse the FSR code, flush, look it up.
CurrentDriver_range(answered) ==
    IF ql.inst # "open"
    THEN [exc |-> NoSession(ql.inst), F |-> 0, io |-> <<>>]
    ELSE IF ~answered
    THEN [exc |-> "VisaIOError", F |-> 0, io |-> <<Cmd("$F?")>>]
    ELSE IF qlBoard.fsr \notin {0, 1, 2}
    THEN [exc |-> "RuntimeError", F |-> 0, io |-> <<Cmd("$F?"), Cmd("flush")>>]
    ELSE [exc |-> "none", F |-> ranges[qlBoard.fsr],
          io |-> <<Cmd("$F?"), Cmd("flush")>>]

\* update(): flush, then the $U query; the response is returned as is.
CurrentDriver_update_io == <<Cmd("flush"), Cmd("$U")>>

\* The tail shared by set_current and set_current_level: the $D query, the
\* check of its response, and update() when do_autoupdate is set.
\* resp: the board's answer to $D, kept in ret; done: $U was answered.
ApplyLevelUpdatesOnReady(op, ch, val, level, shown, pre, resp, done) ==
    [op |-> op, ch |-> ch, val |-> val,
     result |-> IF resp = "timeout" \/ (ql.do_autoupdate /\ ~done)
                THEN "VisaIOError" ELSE "ok",
     io |-> pre \o <<[cmd |-> "$D", ch |-> ch, arg |-> level]>>
            \o (IF resp # "timeout" /\ ql.do_autoupdate
                THEN CurrentDriver_update_io ELSE <<>>),
     ret |-> IF resp = "timeout" THEN "" ELSE resp,
     shown |-> shown]
ApplyLevel(op, ch, val, level, shown, pre, resp, done) ==
    [op |-> op, ch |-> ch, val |-> val,
     result |-> IF resp = "timeout" \/ (resp = "Ack" /\ ql.do_autoupdate /\ ~done)
                THEN "VisaIOError" ELSE "ok",
     io |-> pre \o <<[cmd |-> "$D", ch |-> ch, arg |-> level]>>
            \o (IF resp = "Ack" /\ ql.do_autoupdate
                THEN CurrentDriver_update_io ELSE <<>>),
     ret |-> IF resp = "timeout" THEN "" ELSE resp,
     shown |-> shown]

Raised(op, ch, val, exc, io) ==
    [op |-> op, ch |-> ch, val |-> val, result |-> exc, io |-> io, ret |-> "",
     shown |-> 0]

\* set_current(ch, val): range query first, then the checks, then $D.
CurrentDriver_set_current ==
    \E ch \in QLChans, val \in QLVals, answered \in BOOLEAN,
       resp \in {"Ready", "Ack", "timeout"},
       done \in IF ql.do_autoupdate THEN BOOLEAN ELSE {TRUE} :
        LET r == CurrentDriver_range(answered)
            max_current == r.F
        IN /\ qlCall' =
                IF r.exc # "none"
                THEN Raised("set_current", ch, val, r.exc, r.io)
                ELSE IF ch >= QLASS_NUM_CHANNELS \/ ch < 0
                THEN Raised("set_current", ch, val, "ValueError", r.io)
                ELSE IF val < 0 \/ val >= max_current
                THEN Raised("set_current", ch, val, "ValueError", r.io)
                ELSE ApplyLevel("set_current", ch, val,
                                DacCode(val, max_current), val, r.io, resp,
                                done)
           /\ UNCHANGED <<ql, qlBoard>>
           /\ UNCHANGED NotQL

\* set_current_level(ch, val): the same with a DAC level; val_mA is only shown.
CurrentDriver_set_current_level ==
    \E ch \in QLChans, val \in QLLevels, answered \in BOOLEAN,
       resp \in {"Ready", "Ack", "timeout"},
       done \in IF ql.do_autoupdate THEN BOOLEAN ELSE {TRUE} :
        LET r == CurrentDriver_range(answered)
            max_current == r.F
        IN /\ qlCall' =
                IF r.exc # "none"
                THEN Raised("set_current_level", ch, val, r.exc, r.io)
                ELSE IF ch >= QLASS_NUM_CHANNELS \/ ch < 0
                THEN Raised("set_current_level", ch, val, "ValueError", r.io)
                ELSE IF val < 0 \/ val >= DAC_FULL_SCALE + 1
                THEN Raised("set_current_level", ch, val, "ValueError", r.io)
                ELSE ApplyLevel("set_current_level", ch, val, val,
                                LevelToMilliAmp(val, max_current), r.io, resp,
                                done)
           /\ UNCHANGED <<ql, qlBoard>>
           /\ UNCHANGED NotQL

\* The board's range is selected on the board, not through the driver.
QLBoardRange ==
    \E c \in QLFsrCodes :
        /\ c # qlBoard.fsr
        /\ qlBoard' = [qlBoard EXCEPT !.fsr = c]
        /\ qlCall' = [NoCall EXCEPT !.op = "board_range"]
        /\ ql' = ql
        /\ UNCHANGED NotQL

QLNext ==
    \/ CurrentDriver_new
    \/ CurrentDriver_connect
    \/ CurrentDriver_close
    \/ CurrentDriver_set_current
    \/ CurrentDriver_set_current_level
    \/ QLBoardRange


(***************************************************************************)
(* Tektronix AFG3011C (fastruments/TektronixAFG3011C.py); voltages in mV   *)
(***************************************************************************)
\* __V_LIMIT and __AMPL_MIN, by impedance mode.
V_LIMIT == [m \in {"50", "INF"} |-> IF m = "50" THEN 10000 ELSE 20000]
AMPL_MIN_Swapped == [m \in {"50", "INF"} |-> IF m = "50" THEN 40 ELSE 20]
AMPL_MIN == [m \in {"50", "INF"} |-> IF m = "50" THEN 20 ELSE 40]
IMPEDANCE_MODES == {"50", "INF"}

\* Impedance modes the instrument may report: get_output_impedance maps
\* "50e0" to "50" and "99.0e36" to "INF" and hands any other reply on.
AFGImpReplies == {"50", "INF", "1e3"}
\* Requested and reported offsets and amplitudes.  Double-precision sums
\* offset +- ampl / 2.0 compare with the limits as the exact sums do on
\* these values.
AFGOffsets == {-19000, -9500, -9000, 0, 9000, 9500, 19000}
AFGAmpls == {10, 20, 30, 40, 2000, 20000, 40000}

AFGInit ==
    /\ afg = [inst |-> "none"]
    /\ afgDev = [imp |-> "50", ampl |-> 2000, offs |-> 0, live |-> 0, closes |-> 0]
    /\ afgCall = NoCall

AfgCall(op, val, result, io) ==
    [NoCall EXCEPT !.op = op, !.val = val, !.result = result, !.io = io]
Arg(c, a) == [cmd |-> c, ch |-> 0, arg |-> a]

\* connect() of AFG3011C and TBS2204B: open the resource, then idn() inside a
\* second try whose failure is re-raised as RuntimeError; the session opened
\* by the first try stays in self.inst, open.
\* Gives the driver's inst, the sessions' counters and the call.
VisaConnect(inst, visa, opened, answered) ==
    IF ~opened
    THEN [inst |-> inst, live |-> visa.live, closes |-> visa.closes,
          call |-> [NoCall EXCEPT !.op = "connect", !.result = "ConnectionError",
                                  !.io = <<Cmd("open")>>]]
    ELSE [inst |-> "open", live |-> visa.live + 1, closes |-> 0,
          call |-> [NoCall EXCEPT !.op = "connect",
                                  !.result = IF answered THEN "ok" ELSE "RuntimeError",
                                  !.io = <<Cmd("open"), Cmd("*IDN?")>>]]

AFG3011C_connect ==
    \E opened \in BOOLEAN, answered \in BOOLEAN :
        LET r == VisaConnect(afg.inst, afgDev, opened, answered)
        IN /\ opened => afgDev.live < MaxSessions
           /\ afg' = [afg EXCEPT !.inst = r.inst]
           /\ afgDev' = [afgDev EXCEPT !.live = r.live, !.closes = r.closes]
           /\ afgCall' = r.call
           /\ UNCHANGED NotAFG

AFG3011C_close ==
    \E closed \in BOOLEAN :
        LET r == VisaClose(afg.inst, afgDev, closed)
        IN /\ afg.inst # "none" => afgDev.closes < MaxCloses
           /\ afg' = [afg EXCEPT !.inst = r.inst]
           /\ afgDev' = [afgDev EXCEPT !.live = r.live, !.closes = r.closes]
           /\ afgCall' = r.call
           /\ UNCHANGED NotAFG

\* The combined range check of set_offset and set_amplitude:
\* (offset + vpk) > vlimit or (offset - vpk) < -vlimit, with vpk = ampl / 2.
ExceedsLimitsStrict(offset, ampl, vlimit) ==
    \/ 2 * offset + ampl >= 2 * vlimit
    \/ 2 * offset - ampl <= -(2 * vlimit)
ExceedsLimits(offset, ampl, vlimit) ==
    \/ 2 * offset + ampl > 2 * vlimit
    \/ 2 * offset - ampl < -(2 * vlimit)

\* set_offset(offset): query impedance and amplitude, check, write.
\* fail: the query that times out (0: none).
AFG3011C_set_offset ==
    \E offset \in AFGOffsets, fail \in 0..2 :
        LET q1 == <<Cmd("OUTP1:IMP?")>>
            q2 == q1 \o <<Cmd("SOUR1:VOLT?")>>
            impedance == afgDev.imp
            ampl == afgDev.ampl
            written == /\ afg.inst = "open" /\ fail = 0
                       /\ impedance \in DOMAIN V_LIMIT
                       /\ ~ExceedsLimits(offset, ampl, V_LIMIT[impedance])
        IN /\ afgCall' =
                IF afg.inst # "open"
                THEN AfgCall("set_offset", offset, NoSession(afg.inst), <<>>)
                ELSE IF fail = 1
                THEN AfgCall("set_offset", offset, "VisaIOError", q1)
                ELSE IF fail = 2
                THEN AfgCall("set_offset", offset, "VisaIOError", q2)
                ELSE IF impedance \notin DOMAIN V_LIMIT
                THEN AfgCall("set_offset", offset, "KeyError", q2)
                ELSE IF ExceedsLimits(offset, ampl, V_LIMIT[impedance])
                THEN AfgCall("set_offset", offset, "ValueError", q2)
                ELSE AfgCall("set_offset", offset, "ok",
                             q2 \o <<Arg("SOUR1:VOLT:OFFS", offset)>>)
           /\ afgDev' = IF written THEN [afgDev EXCEPT !.offs = offset] ELSE afgDev
           /\ afg' = afg
           /\ UNCHANGED NotAFG

\* set_amplitude(ampl): query impedance, check the minimum, query the offset,
\* check the combined range, write.
AFG3011C_set_amplitude ==
    \E ampl \in AFGAmpls, fail \in 0..2 :
        LET q1 == <<Cmd("OUTP1:IMP?")>>
            q2 == q1 \o <<Cmd("SOUR1:VOLT:OFFS?")>>
            impedance == afgDev.imp
            offset == afgDev.offs
            written == /\ afg.inst = "open" /\ fail = 0
                       /\ impedance \in DOMAIN V_LIMIT
                       /\ AMPL_MIN[impedance] <= ampl
                       /\ ~ExceedsLimits(offset, ampl, V_LIMIT[impedance])
        IN /\ afgCall' =
                IF afg.inst # "open"
                THEN AfgCall("set_amplitude", ampl, NoSession(afg.inst), <<>>)
                ELSE IF fail = 1
                THEN AfgCall("set_amplitude", ampl, "VisaIOError", q1)
                ELSE IF impedance \notin DOMAIN AMPL_MIN
                THEN AfgCall("set_amplitude", ampl, "KeyError", q1)
                ELSE IF ~(AMPL_MIN[impedance] <= ampl)
                THEN AfgCall("set_amplitude", ampl, "ValueError", q1)
                ELSE IF fail = 2
                THEN AfgCall("set_amplitude", ampl, "VisaIOError", q2)
                ELSE IF ExceedsLimits(offset, ampl, V_LIMIT[impedance])
                THEN AfgCall("set_amplitude", ampl, "ValueError", q2)
                ELSE AfgCall("set_amplitude", ampl, "ok",
                             q2 \o <<Arg("SOUR1:VOLT", ampl)>>)
           /\ afgDev' = IF written THEN [afgDev EXCEPT !.ampl = ampl] ELSE afgDev
           /\ afg' = afg
           /\ UNCHANGED NotAFG

\* set_output_impedance(mode): membership check, then the write.
AFG3011C_set_output_impedance ==
    \E mode \in {"50", "INF", "75"} :
        /\ afgCall' =
                IF mode \notin IMPEDANCE_MODES
                THEN [AfgCall("set_output_impedance", 0, "ValueError", <<>>)
                        EXCEPT !.ret = mode]
                ELSE IF afg.inst # "open"
                THEN [AfgCall("set_output_impedance", 0, NoSession(afg.inst), <<>>)
                        EXCEPT !.ret = mode]
                ELSE [AfgCall("set_output_impedance", 0, "ok", <<Cmd("OUTP1:IMP")>>)
                        EXCEPT !.ret = mode]
        /\ afgDev' = IF mode \in IMPEDANCE_MODES /\ afg.inst = "open"
                     THEN [afgDev EXCEPT !.imp = mode] ELSE afgDev
        /\ afg' = afg
        /\ UNCHANGED NotAFG

\* The instrument's settings changed at its front panel, not by the driver.
AFGFrontPanel ==
    \E imp \in AFGImpReplies, ampl \in AFGAmpls, offs \in AFGOffsets :
        /\ \/ imp # afgDev.imp /\ ampl = afgDev.ampl /\ offs = afgDev.offs
           \/ imp = afgDev.imp /\ ampl # afgDev.ampl /\ offs = afgDev.offs
           \/ imp = afgDev.imp /\ ampl = afgDev.ampl /\ offs # afgDev.offs
        /\ afgDev' = [afgDev EXCEPT !.imp = imp, !.ampl = ampl, !.offs = offs]
        /\ afgCall' = [NoCall EXCEPT !.op = "front_panel"]
        /\ afg' = afg
        /\ UNCHANGED NotAFG

AFGNext ==
    \/ AFG3011C_connect
    \/ AFG3011C_close
    \/ AFG3011C_set_offset
    \/ AFG3011C_set_amplitude
    \/ AFG3011C_set_output_impedance
    \/ AFGFrontPanel

(***************************************************************************)
(* Tektronix TBS2204B (fastruments/TektronixTBS2204B.py)                   *)
(* Scales in millivolts per division, gains in tenths.  What the           *)
(* oscilloscope answers to a query is an input of the call.                *)
(***************************************************************************)
TBS_NUM_CHANNELS == 4

\* __VERTICAL_SCALES, in millivolts per division.
VERTICAL_SCALES == {2, 5, 10, 20, 50, 100, 200, 500, 1000, 2000, 5000}

TBSChans == {0, 1, TBS_NUM_CHANNELS, TBS_NUM_CHANNELS + 1}
\* Gains the oscilloscope reports (0.1, 1, 10) and scales requested.
TBSGains == {1, 10, 100}
TBSScales == {1, 2, 3, 20, 100, 200, 1000, 5000, 50000}

\* The (scale, gain) pairs of these sets whose double-precision product is not
\* the double of the decimal product: 0.1 * 0.1 and 0.2 * 0.1 give
\* 0.010000000000000002 and 0.020000000000000004.
InexactProducts == {<<100, 1>>, <<200, 1>>}

\* scale * gain in __VERTICAL_SCALES, as the doubles compare.
ScaleTimesGainListed(scale, gain) ==
    /\ \E b \in VERTICAL_SCALES : scale * gain = b * 10
    /\ <<scale, gain>> \notin InexactProducts

TBSInit ==
    /\ tbs = [inst |-> "none"]
    /\ tbsVisa = [live |-> 0, closes |-> 0]
    /\ tbsCall = [NoCall EXCEPT !.shown = 10]

TBS2204B_connect ==
    \E opened \in BOOLEAN, answered \in BOOLEAN :
        LET r == VisaConnect(tbs.inst, tbsVisa, opened, answered)
        IN /\ opened => tbsVisa.live < MaxSessions
           /\ tbs' = [tbs EXCEPT !.inst = r.inst]
           /\ tbsVisa' = [live |-> r.live, closes |-> r.closes]
           /\ tbsCall' = [r.call EXCEPT !.shown = 10]
           /\ UNCHANGED NotTBS

TBS2204B_close ==
    \E closed \in BOOLEAN :
        LET r == VisaClose(tbs.inst, tbsVisa, closed)
        IN /\ tbs.inst # "none" => tbsVisa.closes < MaxCloses
           /\ tbs' = [tbs EXCEPT !.inst = r.inst]
           /\ tbsVisa' = [live |-> r.live, closes |-> r.closes]
           /\ tbsCall' = [r.call EXCEPT !.shown = 10]
           /\ UNCHANGED NotTBS

\* The exception raised for a scale that is not listed: the ValueError's
\* message divides the set __VERTICAL_SCALES by the gain, which raises
\* TypeError while the message is built.
InvalidScaleError == "TypeError"

\* set_channel_scale(channel, scale): channel check, gain query, membership
\* check, write.  shown: the gain the oscilloscope answered.
TBS2204B_set_channel_scale ==
    \E channel \in TBSChans, scale \in TBSScales, gain \in TBSGains,
       answered \in BOOLEAN :
        LET call(result, io) ==
                [op |-> "set_channel_scale", ch |-> channel, val |-> scale,
                 result |-> result, io |-> io, ret |-> "", shown |-> gain]
            q == <<[cmd |-> ":CH:PRO:GAIN?", ch |-> channel, arg |-> 0]>>
        IN /\ tbsCall' =
                IF ~(1 <= channel /\ channel <= TBS_NUM_CHANNELS)
                THEN call("ValueError", <<>>)
                ELSE IF tbs.inst # "open"
                THEN call(NoSession(tbs.inst), <<>>)
                ELSE IF ~answered
                THEN call("VisaIOError", q)
                ELSE IF ~ScaleTimesGainListed(scale, gain)
                THEN call(InvalidScaleError, q)
                ELSE call("ok", q \o <<[cmd |-> ":CH:SCA", ch |-> channel,
                                        arg |-> scale]>>)
           /\ UNCHANGED <<tbs, tbsVisa>>
           /\ UNCHANGED NotTBS

\* Trigger sources the oscilloscope reports: a channel, or 0 for a source
\* that is not a channel (get_trigger_source then returns None).
TBSSources == {0, 1, TBS_NUM_CHANNELS}
\* Vertical positions reported, in hundredths of a division, and vertical
\* scales reported, in millivolts per division.
TBSPositions == {-200, 100}
TBSTrigScales == {100, 1000}
\* The trigger span: 4.96 divisions, in hundredths of a division.
TRIGGER_SPAN == 496
\* Trigger levels requested, in units of 10 microvolts: zero, every limit and
\* the value just outside it.  On these values the double-precision limits
\* compare with the level as the exact ones do.
TBSLevels ==
    {0} \cup
    {(TRIGGER_SPAN - q) * c + d : q \in TBSPositions, c \in TBSTrigScales,
                                  d \in {0, 1}} \cup
    {-((TRIGGER_SPAN + q) * c) - d : q \in TBSPositions, c \in TBSTrigScales,
                                     d \in {0, 1}}

\* min_allowed <= level <= max_allowed with min_allowed =
\* -(4.96 + position) * scale and max_allowed = +(4.96 - position) * scale.
TriggerLevelAllowedMirrored(level, scale, position) ==
    /\ -((TRIGGER_SPAN - position) * scale) <= level
    /\ level <= (TRIGGER_SPAN - position) * scale
TriggerLevelAllowed(level, scale, position) ==
    /\ -((TRIGGER_SPAN + position) * scale) <= level
    /\ level <= (TRIGGER_SPAN - position) * scale

\* A query as logged, with the answer it got.
Query(c, channel, answer) == [cmd |-> c, ch |-> channel, arg |-> answer]

\* set_trigger_level(level): trigger source query, scale and position queries
\* of that channel (each behind its channel check), range check, write.
\* fail: the query that times out (0: none).
TBS2204B_set_trigger_level ==
    \E level \in TBSLevels, source \in TBSSources, scale \in TBSTrigScales,
       position \in TBSPositions, fail \in 0..3 :
        LET call(result, io) ==
                [op |-> "set_trigger_level", ch |-> source, val |-> level,
                 result |-> result, io |-> io, ret |-> "", shown |-> 10]
            q1 == <<Query(":TRIG:A:EDGE:SOU?", 0, source)>>
            q2 == q1 \o <<Query(":CH:SCA?", source, scale)>>
            q3 == q2 \o <<Query(":CH:POS?", source, position)>>
        IN /\ tbsCall' =
                IF tbs.inst # "open"
                THEN call(NoSession(tbs.inst), <<>>)
                ELSE IF fail = 1
                THEN call("VisaIOError", <<Query(":TRIG:A:EDGE:SOU?", 0, 0)>>)
                ELSE IF source = 0
                THEN call("TypeError", q1)
                ELSE IF fail = 2
                THEN call("VisaIOError", q1 \o <<Query(":CH:SCA?", source, 0)>>)
                ELSE IF fail = 3
                THEN call("VisaIOError", q2 \o <<Query(":CH:POS?", source, 0)>>)
                ELSE IF ~TriggerLevelAllowed(level, scale, position)
                THEN call("ValueError", q3)
                ELSE call("ok", q3 \o <<Query(":TRIG:A:LEV", 0, level)>>)
           /\ UNCHANGED <<tbs, tbsVisa>>
           /\ UNCHANGED NotTBS

\* get_channel_display: the answer to :SEL:CH<n>? compared with "1".
\* state: 1 for the answer "1", 0 for the answer "0".
ChannelDisplayedIfAnswered(state) == TRUE
ChannelDisplayed(state) == state = 1

\* The commands by which get_waveform sets up and reads a transfer.
WaveformSetup ==
    <<Cmd(":DAT:ENC"), Cmd(":DAT:SOU"), Cmd(":DAT:STAR"), Cmd(":DAT:STOP")>>
WaveformScaling ==
    <<Cmd(":WFMO:YMULT?"), Cmd(":WFMO:YOFF?"), Cmd(":WFMO:YZERO?"),
      Cmd(":WFMO:XINCR?"), Cmd(":WFMO:XZERO?")>>

\* get_waveform(channel): channel check, display query, the transfer set-up,
\* :CURV?, then the five scaling queries.
\* fail: 0 none, 1 the display query times out, 2 :CURV? does, 3 the first
\* scaling query does.
TBS2204B_get_waveform ==
    \E channel \in TBSChans, state \in 0..1, fail \in 0..3 :
        LET call(result, io) ==
                [op |-> "get_waveform", ch |-> channel, val |-> 0,
                 result |-> result, io |-> io, ret |-> "", shown |-> 10]
            q == <<Query(":SEL:CH?", channel, state)>>
            setup == q \o [k \in 1..4 |-> [WaveformSetup[k] EXCEPT !.ch =
                                             IF k = 2 THEN channel ELSE 0]]
        IN /\ tbsCall' =
                IF ~(1 <= channel /\ channel <= TBS_NUM_CHANNELS)
                THEN call("ValueError", <<>>)
                ELSE IF tbs.inst # "open"
                THEN call(NoSession(tbs.inst), <<>>)
                ELSE IF fail = 1
                THEN call("VisaIOError", <<Query(":SEL:CH?", channel, 0)>>)
                ELSE IF ~ChannelDisplayed(state)
                THEN call("ValueError", q)
                ELSE IF fail = 2
                THEN call("VisaIOError", setup \o <<Cmd(":CURV?")>>)
                ELSE IF fail = 3
                THEN call("VisaIOError",
                          setup \o <<Cmd(":CURV?"), WaveformScaling[1]>>)
                ELSE call("ok", setup \o <<Cmd(":CURV?")>> \o WaveformScaling)
           /\ UNCHANGED <<tbs, tbsVisa>>
           /\ UNCHANGED NotTBS

TBSNext ==
    \/ TBS2204B_connect
    \/ TBS2204B_close
    \/ TBS2204B_set_channel_scale
    \/ TBS2204B_set_trigger_level
    \/ TBS2204B_get_waveform


(***************************************************************************)
(* Lfiber optical switch LF_OSW (src/lf_osw/core.py)                       *)
(***************************************************************************)
\* Channel counts of the switches at hand, as parsed from the model string
\* ("LF-OSW-1X16-..." gives 16).
OSWModels == {2, 16}
OSWChans == {-1, 0, 1, 2, 3, 16, 17}
\* What the switch answers to an OSW_OUT_xx command.
OSWReplies == {"OSW_OUT_OK", "OSW_OUT_OVERFLOW", "OSW_OUT_ERR", "timeout"}

OSWInit ==
    /\ osw = [inst |-> "none", channels |-> 0]
    /\ oswDev = [channel |-> 0, live |-> 0, closes |-> 0]
    /\ oswCall = NoCall

OswCall(op, ch, result, io) ==
    [NoCall EXCEPT !.op = op, !.ch = ch, !.result = result, !.io = io]
Out(c) == [cmd |-> "OSW_OUT", ch |-> c, arg |-> 0]

\* __init__: open the resource, then idn() and __update_info inside a try whose
\* failure is re-raised as RuntimeError.
\* reply: "model" (well formed), "short" (fewer than five parts), "prefix"
\* (no OSW_TYPE_ prefix) or "timeout".
LF_OSW_new ==
    \E opened \in BOOLEAN, n \in OSWModels,
       reply \in {"model", "short", "prefix", "timeout"} :
        /\ osw.inst = "none"
        /\ IF ~opened
           THEN /\ oswCall' = OswCall("new", 0, "ConnectionError", <<Cmd("open")>>)
                /\ UNCHANGED <<osw, oswDev>>
           ELSE /\ oswDev.live < MaxSessions
                /\ oswDev' = [oswDev EXCEPT !.live = @ + 1, !.closes = 0]
                /\ IF reply = "model"
                   THEN /\ osw' = [inst |-> "open", channels |-> n]
                        /\ oswCall' = OswCall("new", 0, "ok",
                                              <<Cmd("open"), Cmd("OSW_TYPE_?")>>)
                   ELSE /\ osw' = osw
                        /\ oswCall' = OswCall("new", 0, "RuntimeError",
                                              <<Cmd("open"), Cmd("OSW_TYPE_?")>>)
        /\ UNCHANGED NotOSW

LF_OSW_close ==
    \E closed \in BOOLEAN :
        LET r == VisaClose(osw.inst, oswDev, closed)
        IN /\ osw.inst # "none"
           /\ oswDev.closes < MaxCloses
           /\ osw' = [osw EXCEPT !.inst = r.inst]
           /\ oswDev' = [oswDev EXCEPT !.live = r.live, !.closes = r.closes]
           /\ oswCall' = r.call
           /\ UNCHANGED NotOSW

\* The channel number on the wire: set_channel formats it with {channel:02d}
\* (two decimal digits, more when it needs them), reset sends the digits 00,
\* and get_channel reads the digits that follow the prefix with int().
Format02d(n) ==
    IF n < 100 THEN <<n \div 10, n % 10>>
    ELSE <<n \div 100, (n \div 10) % 10, n % 10>>
ParseIntLastDigit(digits) == digits[Len(digits)]
RECURSIVE ParseInt(_)
ParseInt(digits) ==
    IF digits = <<>> THEN 0
    ELSE ParseInt(SubSeq(digits, 1, Len(digits) - 1)) * 10 + digits[Len(digits)]

\* The range check of set_channel: 1 <= channel <= model_info['channels'].
ChannelInRangeFromZero(channel, channels) == 0 <= channel /\ channel <= channels
ChannelInRange(channel, channels) == 1 <= channel /\ channel <= channels

\* How set_channel ends on a reply of the switch ("timeout": no reply came,
\* the read raises).
SetChannelResultOverflowAsError(reply) ==
    CASE reply = "OSW_OUT_OK" -> "ok"
      [] reply = "timeout" -> "VisaIOError"
      [] OTHER -> "RuntimeError"
SetChannelResult(reply) ==
    CASE reply = "OSW_OUT_OK" -> "ok"
      [] reply = "OSW_OUT_OVERFLOW" -> "ValueError"
      [] reply = "timeout" -> "VisaIOError"
      [] OTHER -> "RuntimeError"
\* How reset ends on a reply of the switch.
ResetResult(reply) ==
    CASE reply = "OSW_OUT_OK" -> "ok"
      [] reply = "timeout" -> "VisaIOError"
      [] OTHER -> "RuntimeError"

\* set_channel(channel): range check, OSW_OUT_<channel>, check of the reply.
\* A switch that answers OSW_OUT_OK has taken the channel it read from the
\* digits of the command; on any other answer, or none, it stays where it was.
LF_OSW_set_channel ==
    \E channel \in OSWChans, reply \in OSWReplies :
        LET sent == /\ ChannelInRange(channel, osw.channels)
                    /\ osw.inst = "open"
        IN /\ osw.inst # "none"
           /\ oswCall' =
                IF ~ChannelInRange(channel, osw.channels)
                THEN OswCall("set_channel", channel, "ValueError", <<>>)
                ELSE IF osw.inst # "open"
                THEN OswCall("set_channel", channel, NoSession(osw.inst), <<>>)
                ELSE [OswCall("set_channel", channel, SetChannelResult(reply),
                              <<Out(channel)>>) EXCEPT !.ret = reply]
           /\ oswDev' = IF sent /\ reply = "OSW_OUT_OK"
                        THEN [oswDev EXCEPT !.channel = ParseInt(Format02d(channel))]
                        ELSE oswDev
           /\ osw' = osw
           /\ UNCHANGED NotOSW

\* reset(): OSW_OUT_00, check of the reply.
LF_OSW_reset ==
    \E reply \in OSWReplies :
        /\ osw.inst # "none"
        /\ oswCall' =
                IF osw.inst # "open"
                THEN OswCall("reset", 0, NoSession(osw.inst), <<>>)
                ELSE [OswCall("reset", 0, ResetResult(reply), <<Out(0)>>)
                        EXCEPT !.ret = reply]
        /\ oswDev' = IF osw.inst = "open" /\ reply = "OSW_OUT_OK"
                     THEN [oswDev EXCEPT !.channel = ParseInt(<<0, 0>>)]
                     ELSE oswDev
        /\ osw' = osw
        /\ UNCHANGED NotOSW

\* What the switch may answer to OSW_OUT_?: "channel" (OSW_OUT_<nn>, the
\* channel it is on), "text" (OSW_OUT_ followed by something that is not a
\* number), "prefix" (a reply that does not start with OSW_OUT_) or "timeout".
OSWChannelReplies == {"channel", "text", "prefix", "timeout"}
\* What it may answer to OSW_TYPE_?: "model" (OSW_TYPE_ and a full model
\* string), "short" (OSW_TYPE_ and fewer than five parts), "prefix" (a reply
\* that does not start with OSW_TYPE_) or "timeout".
OSWTypeReplies == {"model", "short", "prefix", "timeout"}

\* How get_channel ends: the read raises on a timeout, the prefix check raises
\* RuntimeError, int() raises ValueError on a rest that is not a number.
GetChannelResultUnchecked(reply) ==
    CASE reply = "channel" -> "ok"
      [] reply = "timeout" -> "VisaIOError"
      [] OTHER -> "ValueError"
GetChannelResult(reply) ==
    CASE reply = "channel" -> "ok"
      [] reply = "timeout" -> "VisaIOError"
      [] reply = "prefix" -> "RuntimeError"
      [] OTHER -> "ValueError"
\* How idn ends: only the prefix is checked, the model string is not parsed.
IdnResult(reply) ==
    CASE reply = "timeout" -> "VisaIOError"
      [] reply = "prefix" -> "RuntimeError"
      [] OTHER -> "ok"

\* get_channel(): OSW_OUT_?, prefix check, int() of the rest.  A well-formed
\* reply carries the channel the switch is on, as two digits.
LF_OSW_get_channel ==
    \E reply \in OSWChannelReplies :
        /\ osw.inst # "none"
        /\ oswCall' =
                IF osw.inst # "open"
                THEN OswCall("get_channel", 0, NoSession(osw.inst), <<>>)
                ELSE [OswCall("get_channel", 0, GetChannelResult(reply),
                              <<Cmd("OSW_OUT_?")>>)
                        EXCEPT !.ret = reply,
                               !.shown = IF reply = "channel"
                                         THEN ParseInt(Format02d(oswDev.channel))
                                         ELSE 0]
        /\ UNCHANGED <<osw, oswDev>>
        /\ UNCHANGED NotOSW

\* idn(): OSW_TYPE_?, prefix check; model_info is not touched.
LF_OSW_idn ==
    \E reply \in OSWTypeReplies :
        /\ osw.inst # "none"
        /\ oswCall' =
                IF osw.inst # "open"
                THEN OswCall("idn", 0, NoSession(osw.inst), <<>>)
                ELSE [OswCall("idn", 0, IdnResult(reply), <<Cmd("OSW_TYPE_?")>>)
                        EXCEPT !.ret = reply]
        /\ UNCHANGED <<osw, oswDev>>
        /\ UNCHANGED NotOSW

OSWNext ==
    \/ LF_OSW_new
    \/ LF_OSW_close
    \/ LF_OSW_set_channel
    \/ LF_OSW_reset
    \/ LF_OSW_get_channel
    \/ LF_OSW_idn

(***************************************************************************)
(* Qontrol Q8iv (fastruments/Qontrol.py); currents in tenths of a mA,      *)
(* voltages in tenths of a volt                                            *)
(***************************************************************************)
IMAX_DEFAULT == 240
VMAX_DEFAULT == 120
\* Channels of the board at hand (num_channels = len(self._q.i)).
Q8Channels == 2

\* A compliance below the default, as a user may set it.
Q8LowI == 100
Q8LowV == 50

Q8Chans == 0..(Q8Channels - 1)
Q8ChanLists ==
    {<<>>, <<0>>, <<Q8Channels - 1>>, <<-1>>, <<Q8Channels>>,
     <<0, 1>>, <<1, 0>>, <<0, 0>>, <<0, Q8Channels>>, <<-1, 0>>}
\* Value lists around a compliance hi, with lo below it.
Q8ValLists(hi, lo) ==
    {<<>>, <<0>>, <<hi>>, <<hi + 1>>, <<-1>>,
     <<lo, hi>>, <<hi, lo>>, <<lo, hi + 1>>, <<-1, lo>>, <<lo, lo>>}

Q8NoCall == [op |-> "none", chans |-> <<>>, vals |-> <<>>, result |-> "ok",
             io |-> <<>>]
Q8Init ==
    /\ q8 = [_q |-> "none", init_mode |-> "i", imax |-> IMAX_DEFAULT,
             vmax |-> VMAX_DEFAULT, num_channels |-> Q8Channels]
    /\ q8Board = [i |-> [c \in Q8Chans |-> 0], v |-> [c \in Q8Chans |-> 0],
                  imax |-> IMAX_DEFAULT, vmax |-> VMAX_DEFAULT]
    /\ q8Call = Q8NoCall

\* The bounds check of set_compliance.
ComplianceInBoundsEither(imax, vmax) ==
    \/ 0 < imax /\ imax <= IMAX_DEFAULT
    \/ 0 < vmax /\ vmax <= VMAX_DEFAULT
ComplianceInBounds(imax, vmax) ==
    /\ 0 < imax /\ imax <= IMAX_DEFAULT
    /\ 0 < vmax /\ vmax <= VMAX_DEFAULT

\* __init__: connect(), channel count, init_mode check, set_compliance.
Q8iv_new ==
    \E opened \in BOOLEAN, mode \in {"i", "v", "x"},
       imax \in {Q8LowI, IMAX_DEFAULT, IMAX_DEFAULT + 1},
       vmax \in {Q8LowV, VMAX_DEFAULT} :
        /\ q8._q = "none"
        /\ IF opened /\ mode \in {"i", "v"} /\ ComplianceInBounds(imax, vmax)
           THEN /\ q8' = [_q |-> "open", init_mode |-> mode, imax |-> imax,
                          vmax |-> vmax, num_channels |-> Q8Channels]
                /\ q8Board' = [q8Board EXCEPT !.imax = imax, !.vmax = vmax]
                /\ q8Call' = [Q8NoCall EXCEPT !.op = "new"]
           ELSE /\ q8Call' = [Q8NoCall EXCEPT !.op = "new",
                                !.result = IF opened THEN "ValueError"
                                           ELSE "ConnectionError"]
                /\ UNCHANGED <<q8, q8Board>>
        /\ UNCHANGED NotQ8

\* __validate_chans_vals and __validate_channel.
ChansValsValid(chans, vals) ==
    /\ Len(chans) = Len(vals)
    /\ \A k \in DOMAIN chans : 0 <= chans[k] /\ chans[k] < q8.num_channels

\* The value check of set_current and set_voltage: 0 <= v <= limit.
ValueInRangeNoLowerBound(v, limit) == v <= limit
ValueInRange(v, limit) == 0 <= v /\ v <= limit

\* The outputs after writing vals[1..n] to chans[1..n] in list order.
RECURSIVE WriteAll(_, _, _, _)
WriteAll(out, chans, vals, n) ==
    IF n = 0 THEN out
    ELSE [WriteAll(out, chans, vals, n - 1) EXCEPT ![chans[n]] = vals[n]]

WriteLog(chans, vals, n) == [k \in 1..n |-> <<chans[k], vals[k]>>]

\* The body shared by set_current and set_voltage: mode check, list checks,
\* value check, then one write per channel.  written: how many writes the
\* board takes before one raises (all of them when it is the list's length).
Q8SetOutputs(op, mode, limit, out, chans, vals, written) ==
    IF q8.init_mode # mode
    THEN [out |-> out, call |-> [Q8NoCall EXCEPT !.op = op, !.chans = chans,
                                   !.vals = vals, !.result = "ValueError"]]
    ELSE IF ~ChansValsValid(chans, vals)
    THEN [out |-> out, call |-> [Q8NoCall EXCEPT !.op = op, !.chans = chans,
                                   !.vals = vals, !.result = "ValueError"]]
    ELSE IF \E k \in DOMAIN vals : ~ValueInRange(vals[k], limit)
    THEN [out |-> out, call |-> [Q8NoCall EXCEPT !.op = op, !.chans = chans,
                                   !.vals = vals, !.result = "ValueError"]]
    ELSE IF q8._q # "open"
    THEN [out |-> out,
          call |-> [Q8NoCall EXCEPT !.op = op, !.chans = chans, !.vals = vals,
                      !.result = IF Len(chans) = 0 THEN "ok"
                                 ELSE "AttributeError"]]
    ELSE [out |-> WriteAll(out, chans, vals, written),
          call |-> [op |-> op, chans |-> chans, vals |-> vals,
                    result |-> IF written = Len(chans) THEN "ok"
                               ELSE "QontrolError",
                    io |-> WriteLog(chans, vals, written)]]

Q8iv_set_current ==
    \E chans \in Q8ChanLists, currents \in Q8ValLists(IMAX_DEFAULT, Q8LowI) :
      \E written \in 0..Len(chans) :
        LET r == Q8SetOutputs("set_current", "i", q8.imax, q8Board.i,
                              chans, currents, written)
        IN /\ q8._q # "none"
           /\ q8Call' = r.call
           /\ q8Board' = [q8Board EXCEPT !.i = r.out]
           /\ q8' = q8
           /\ UNCHANGED NotQ8

Q8iv_set_voltage ==
    \E chans \in Q8ChanLists, volts \in Q8ValLists(VMAX_DEFAULT, Q8LowV) :
      \E written \in 0..Len(chans) :
        LET r == Q8SetOutputs("set_voltage", "v", q8.vmax, q8Board.v,
                              chans, volts, written)
        IN /\ q8._q # "none"
           /\ q8Call' = r.call
           /\ q8Board' = [q8Board EXCEPT !.v = r.out]
           /\ q8' = q8
           /\ UNCHANGED NotQ8

\* set_compliance(imax, vmax): bounds check, registers, fields.  On a closed
\* driver the first register write raises AttributeError.
Q8iv_set_compliance ==
    \E imax \in {0, Q8LowI, IMAX_DEFAULT, IMAX_DEFAULT + 1},
       vmax \in {0, Q8LowV, VMAX_DEFAULT, VMAX_DEFAULT + 1} :
        LET call(result) == [Q8NoCall EXCEPT !.op = "set_compliance",
                                             !.vals = <<imax, vmax>>,
                                             !.result = result]
        IN /\ q8._q # "none"
           /\ IF ~ComplianceInBounds(imax, vmax)
              THEN /\ q8Call' = call("ValueError")
                   /\ UNCHANGED <<q8, q8Board>>
              ELSE IF q8._q # "open"
              THEN /\ q8Call' = call("AttributeError")
                   /\ UNCHANGED <<q8, q8Board>>
              ELSE /\ q8' = [q8 EXCEPT !.imax = imax, !.vmax = vmax]
                   /\ q8Board' = [q8Board EXCEPT !.imax = imax, !.vmax = vmax]
                   /\ q8Call' = call("ok")
           /\ UNCHANGED NotQ8

\* The outputs after set_all_zero(): the mode's outputs at 0.
AllZero(board, mode) ==
    IF mode = "v" THEN [board EXCEPT !.v = [c \in Q8Chans |-> 0]]
    ELSE [board EXCEPT !.i = [c \in Q8Chans |-> 0]]

Q8iv_set_all_zero ==
    /\ q8._q = "open"
    /\ q8Board' = AllZero(q8Board, q8.init_mode)
    /\ q8Call' = [Q8NoCall EXCEPT !.op = "set_all_zero", !.io = <<"zero">>]
    /\ q8' = q8
    /\ UNCHANGED NotQ8

\* The handle after the low-level close was tried: the finally clause sets
\* _q = None whether or not that close raised.
Q8HandleAfterCloseNoFinally(closed) == IF closed THEN "closed" ELSE "open"
Q8HandleAfterClose(closed) == "closed"

\* close(): on an open driver set_all_zero(), then the low-level close, then
\* _q = None; on a closed one only a message.  Any exception leaves as
\* RuntimeError.  zeroed: set_all_zero() got through (a write that raises
\* changes nothing and ends the call before the low-level close);
\* closed: the low-level close returned.
Q8iv_close ==
    \E zeroed \in BOOLEAN, closed \in BOOLEAN :
        /\ q8._q # "none"
        /\ IF q8._q = "open" /\ zeroed
           THEN /\ q8Board' = AllZero(q8Board, q8.init_mode)
                /\ q8' = [q8 EXCEPT !._q = Q8HandleAfterClose(closed)]
                /\ q8Call' = [Q8NoCall EXCEPT !.op = "close",
                                !.result = IF closed THEN "ok" ELSE "RuntimeError",
                                !.io = <<"zero", "close">>]
           ELSE IF q8._q = "open"
           THEN /\ q8Call' = [Q8NoCall EXCEPT !.op = "close",
                                !.result = "RuntimeError",
                                !.io = <<"zero_raised">>]
                /\ UNCHANGED <<q8, q8Board>>
           ELSE /\ q8Call' = [Q8NoCall EXCEPT !.op = "close"]
                /\ UNCHANGED <<q8, q8Board>>
        /\ UNCHANGED NotQ8

Q8Next ==
    \/ Q8iv_new
    \/ Q8iv_set_current
    \/ Q8iv_set_voltage
    \/ Q8iv_set_compliance
    \/ Q8iv_set_all_zero
    \/ Q8iv_close

(***************************************************************************)
(* Xenics Bobcat 640 (fastruments/XenicsBobcat640.py)                      *)
(***************************************************************************)
\* Handles the SDK may have open at once.
MaxHandles == 2
\* Frame types the camera may report: 0 (native, pixel size 0), 2 (16 bit
\* gray), 9 (not in the pixel_sizes table).
XenFrameTypes == {0, 2, 9}
XenProperties == {"frame_size", "frame_dims", "width", "height", "frame_type"}

XenInit ==
    /\ xen = [_cam |-> 0, _is_open |-> FALSE, _is_capturing |-> FALSE,
              _calibration_file |-> FALSE, _settings_file |-> FALSE]
    /\ xenDll = [handles |-> 0]
    /\ xenCall = [op |-> "none", result |-> "ok", dll |-> <<>>]

\* A method under way: the object, the SDK's handles, the SDK calls made so
\* far and the exception raised ("ok" for none).  _cam 0 stands for None; a
\* call without a handle argument is logged with handle -1.
XM(x, handles) == [x |-> x, handles |-> handles, dll |-> <<>>, result |-> "ok"]
Dll(m, fn, handle) == [m EXCEPT !.dll = Append(@, [fn |-> fn, handle |-> handle])]
Fail(m, exc) == [m EXCEPT !.result = exc]

\* The condition under which _require_open raises.
NotOpenUnchecked(x) == FALSE
NotOpen(x) == ~x._is_open \/ x._cam = 0
\* The condition under which _require_capturing raises.
NotCapturing(x) == ~x._is_capturing \/ x._cam = 0

Xenics_open_body(m, handle, initialised) ==
    IF m.x._is_open THEN m
    ELSE LET m1 == [Dll(m, "XC_OpenCamera", -1) EXCEPT
                      !.handles = IF handle # 0 THEN @ + 1 ELSE @]
             m2 == Dll(m1, "XC_IsInitialised", handle)
         IN IF handle = 0 THEN Fail(m1, "Exception")
            ELSE IF ~initialised THEN Fail(m2, "XenicsError")
            ELSE [m2 EXCEPT !.x._cam = handle, !.x._is_open = TRUE]

Xenics_start_capture_body(m, started) ==
    IF NotOpen(m.x) THEN Fail(m, "RuntimeError")
    ELSE IF m.x._is_capturing THEN m
    ELSE LET m1 == Dll(m, "XC_StartCapture", m.x._cam)
         IN IF ~started THEN Fail(m1, "XenicsError")
            ELSE [m1 EXCEPT !.x._is_capturing = TRUE]

Xenics_stop_capture_body(m, stopped) ==
    IF NotOpen(m.x) THEN Fail(m, "RuntimeError")
    ELSE IF ~m.x._is_capturing THEN m
    ELSE LET m1 == Dll(m, "XC_StopCapture", m.x._cam)
         IN IF ~stopped THEN Fail(m1, "XenicsError")
            ELSE [m1 EXCEPT !.x._is_capturing = FALSE]

\* given: a filename argument was passed; loaded: the SDK returned 0.
Xenics_load_calibration_body(m, given, loaded) ==
    IF ~given /\ ~m.x._calibration_file THEN m
    ELSE LET m1 == Dll(m, "XC_LoadCalibration", m.x._cam)
         IN IF loaded THEN m1 ELSE Fail(m1, "XenicsError")

Xenics_load_settings_body(m, given, loaded) ==
    IF ~given /\ ~m.x._settings_file THEN m
    ELSE LET m1 == Dll(m, "XC_LoadSettings", m.x._cam)
         IN IF loaded THEN m1 ELSE Fail(m1, "XenicsError")

\* close(): stop_capture() when capturing; the finally clause closes the
\* handle and clears _cam and _is_open whether or not the stop raised.
Xenics_close_body_Unguarded(m, stopped) ==
    LET m1 == IF m.x._is_capturing
              THEN Xenics_stop_capture_body(m, stopped) ELSE m
        m2 == Dll(m1, "XC_CloseCamera", m1.x._cam)
    IN [m2 EXCEPT !.handles = IF m.x._cam # 0 THEN @ - 1 ELSE @,
                  !.x._cam = 0, !.x._is_open = FALSE]
Xenics_close_body(m, stopped) ==
    IF ~m.x._is_open THEN m
    ELSE LET m1 == IF m.x._is_capturing
                   THEN Xenics_stop_capture_body(m, stopped) ELSE m
             m2 == Dll(m1, "XC_CloseCamera", m1.x._cam)
         IN [m2 EXCEPT !.handles = @ - 1, !.x._cam = 0, !.x._is_open = FALSE]

\* The property getters: _require_open, then the SDK getter(s).
Xenics_property_body(m, name) ==
    IF NotOpen(m.x) THEN Fail(m, "RuntimeError")
    ELSE CASE name = "frame_size" -> Dll(m, "XC_GetFrameSize", m.x._cam)
           [] name = "frame_type" -> Dll(m, "XC_GetFrameType", m.x._cam)
           [] name = "width" -> Dll(m, "XC_GetWidth", m.x._cam)
           [] name = "height" -> Dll(m, "XC_GetHeight", m.x._cam)
           [] name = "frame_dims" -> Dll(Dll(m, "XC_GetWidth", m.x._cam),
                                         "XC_GetHeight", m.x._cam)

\* pixel_size: frame_type, then the pixel_sizes table.
Xenics_pixel_size_body(m, frameType) ==
    LET m1 == Xenics_property_body(m, "frame_type")
    IN IF m1.result = "ok" /\ frameType = 9 THEN Fail(m1, "XenicsError") ELSE m1

\* grab_frame(): _require_capturing, frame_size, frame_type, frame_dims,
\* get_pixel_dtype (pixel_size), pixel_size, get_frame, then the array.
Xenics_grab_frame_body(m, frameType, got) ==
    IF NotCapturing(m.x) THEN Fail(m, "RuntimeError")
    ELSE LET m1 == Xenics_property_body(m, "frame_size")
             m2 == Xenics_property_body(m1, "frame_type")
             m3 == Xenics_property_body(m2, "frame_dims")
             m4 == Xenics_pixel_size_body(m3, frameType)
             m5 == Xenics_pixel_size_body(m4, frameType)
             m6 == Dll(m5, "XC_GetFrame", m.x._cam)
         IN IF m1.result # "ok" THEN m1
            ELSE IF m4.result # "ok" THEN m4
            ELSE IF ~got THEN Fail(m6, "XenicsError")
            ELSE IF frameType = 0 THEN Fail(m6, "ZeroDivisionError")
            ELSE m6

\* connect(): open, load_calibration, load_settings, start_capture; the first
\* exception ends it.
Xenics_connect_body(m, handle, initialised, calLoaded, setLoaded, started) ==
    LET m1 == Xenics_open_body(m, handle, initialised)
        m2 == Xenics_load_calibration_body(m1, FALSE, calLoaded)
        m3 == Xenics_load_settings_body(m2, FALSE, setLoaded)
        m4 == Xenics_start_capture_body(m3, started)
    IN IF m1.result # "ok" THEN m1
       ELSE IF m2.result # "ok" THEN m2
       ELSE IF m3.result # "ok" THEN m3
       ELSE m4

\* The state after a method that ran as m.
XenDone(op, m) ==
    /\ xen' = m.x
    /\ xenDll' = [handles |-> m.handles]
    /\ xenCall' = [op |-> op, result |-> m.result, dll |-> m.dll]
    /\ UNCHANGED NotXen

XenNow == XM(xen, xenDll.handles)

Xenics_open ==
    \E handle \in 0..1, initialised \in BOOLEAN :
        /\ xenDll.handles < MaxHandles
        /\ XenDone("open", Xenics_open_body(XenNow, handle, initialised))

Xenics_connect ==
    \E handle \in 0..1, initialised \in BOOLEAN, calLoaded \in BOOLEAN,
       setLoaded \in BOOLEAN, started \in BOOLEAN :
        /\ xenDll.handles < MaxHandles
        /\ XenDone("connect", Xenics_connect_body(XenNow, handle, initialised,
                                                  calLoaded, setLoaded, started))

Xenics_close ==
    \E stopped \in BOOLEAN :
        XenDone("close", Xenics_close_body(XenNow, stopped))

Xenics_start_capture ==
    \E started \in BOOLEAN :
        XenDone("start_capture", Xenics_start_capture_body(XenNow, started))

Xenics_stop_capture ==
    \E stopped \in BOOLEAN :
        XenDone("stop_capture", Xenics_stop_capture_body(XenNow, stopped))

Xenics_grab_frame ==
    \E frameType \in XenFrameTypes, got \in BOOLEAN :
        XenDone("grab_frame", Xenics_grab_frame_body(XenNow, frameType, got))

Xenics_property ==
    \E name \in XenProperties :
        XenDone(name, Xenics_property_body(XenNow, name))

Xenics_load_calibration ==
    \E given \in BOOLEAN, loaded \in BOOLEAN :
        XenDone("load_calibration",
                Xenics_load_calibration_body(XenNow, given, loaded))

Xenics_load_settings ==
    \E given \in BOOLEAN, loaded \in BOOLEAN :
        XenDone("load_settings",
                Xenics_load_settings_body(XenNow, given, loaded))

\* The calibration_file setter: None is ignored; a path is stored and loaded.
Xenics_set_calibration_file ==
    \E given \in BOOLEAN, loaded \in BOOLEAN :
        XenDone("calibration_file",
                IF ~given THEN XenNow
                ELSE Xenics_load_calibration_body(
                         [XenNow EXCEPT !.x._calibration_file = TRUE],
                         TRUE, loaded))

\* The settings_file setter.
Xenics_set_settings_file ==
    \E given \in BOOLEAN, loaded \in BOOLEAN :
        XenDone("settings_file",
                IF ~given THEN XenNow
                ELSE Xenics_load_settings_body(
                         [XenNow EXCEPT !.x._settings_file = TRUE],
                         TRUE, loaded))

XenNext ==
    \/ Xenics_open
    \/ Xenics_connect
    \/ Xenics_close
    \/ Xenics_start_capture
    \/ Xenics_stop_capture
    \/ Xenics_grab_frame
    \/ Xenics_property
    \/ Xenics_load_calibration
    \/ Xenics_load_settings
    \/ Xenics_set_calibration_file
    \/ Xenics_set_settings_file

\* connect() and close() of the three PyVISA drivers, side by side.
VisaNext ==
    \/ AFG3011C_connect
    \/ AFG3011C_close
    \/ TBS2204B_connect
    \/ TBS2204B_close
    \/ CurrentDriver_new
    \/ CurrentDriver_connect
    \/ CurrentDriver_close

Init == QLInit /\ AFGInit /\ TBSInit /\ OSWInit /\ Q8Init /\ XenInit

SpecQLASS == Init /\ [][QLNext]_vars
SpecAFG == Init /\ [][AFGNext]_vars
SpecTBS == Init /\ [][TBSNext]_vars
SpecVisa == Init /\ [][VisaNext]_vars
SpecOSW == Init /\ [][OSWNext]_vars
SpecQ8 == Init /\ [][Q8Next]_vars
SpecXenics == Init /\ [][XenNext]_vars

(***************************************************************************)
(* Properties                                                              *)
(***************************************************************************)
Writes(io) ==
    SelectSeq(io, LAMBDA e : e.cmd \in {"SOUR1:VOLT:OFFS", "SOUR1:VOLT",
                                        "OUTP1:IMP", ":CH:SCA", ":TRIG:A:LEV"})

\* C1: set_current and set_current_level called on a connected driver with a
\* channel outside 0..15 raise ValueError and nothing has been sent to the
\* board in that call, the range query included.  (Calls in which the board
\* did not answer, or answered an unknown range, are left aside.)
C1_ChannelRejectedBeforeIO ==
    (/\ qlCall.op \in {"set_current", "set_current_level"}
     /\ ql.inst = "open"
     /\ qlCall.result \notin {"VisaIOError", "RuntimeError"}
     /\ ~(0 <= qlCall.ch /\ qlCall.ch <= 15))
    => (qlCall.result = "ValueError" /\ Sent(qlCall.io) = <<>>)

\* C2: set_current on a valid channel with the range F reported: for
\* 0 <= val < F exactly one $D is sent, for that channel, with the code c such
\* that c <= val / F * 65535 < c + 1 (32767 for 23.86 mA of 47.72 mA); for
\* val < 0 or val >= F the call raises ValueError and sends no $D.
C2_DacEncoding ==
    (/\ qlCall.op = "set_current"
     /\ 0 <= qlCall.ch /\ qlCall.ch <= 15
     /\ Len(qlCall.io) >= 2
     /\ qlBoard.fsr \in 0..2)
    => LET F == CASE qlBoard.fsr = 0 -> 277 [] qlBoard.fsr = 1 -> 2500
                  [] qlBoard.fsr = 2 -> 4772
           v == qlCall.val
           d == SentCmd(qlCall.io, "$D")
       IN IF 0 <= v /\ v < F
          THEN /\ Len(d) = 1
               /\ d[1].ch = qlCall.ch
               /\ d[1].arg * F <= v * 65535
               /\ v * 65535 < (d[1].arg + 1) * F
               /\ (F = 4772 /\ v = 2386) => d[1].arg = 32767
               /\ qlCall.result # "ValueError"
          ELSE /\ qlCall.result = "ValueError"
               /\ Len(d) = 0

C2_Witness ==
    /\ qlCall.op = "set_current" /\ qlCall.result = "ok"
    /\ qlBoard.fsr = 2 /\ qlCall.val = 2386
    /\ SentCmd(qlCall.io, "$D") = <<[cmd |-> "$D", ch |-> 0, arg |-> 32767]>>

\* C6: the level sent for a current v, converted back by set_current_level's
\* level-to-mA conversion, differs from v by at most F / 65535.
C6_RoundTripWithinOneStep ==
    (/\ qlCall.op = "set_current_level" /\ qlCall.result = "ok"
     /\ qlBoard.fsr \in 0..2)
    => \A v \in QLVals :
          (/\ 0 <= v /\ v < ranges[qlBoard.fsr]
           /\ DacCode(v, ranges[qlBoard.fsr]) = qlCall.val)
          => LET back == qlCall.shown * 100
                 err == IF back >= v THEN back - v ELSE v - back
             IN err * 65535 <= ranges[qlBoard.fsr]

\* C3: set_offset on a connected generator whose queries are answered reads
\* the impedance and then the amplitude A, and writes SOUR1:VOLT:OFFS o iff
\* o + A/2 <= Vlimit and o - A/2 >= -Vlimit (10 V for "50", 20 V for "INF");
\* otherwise it raises ValueError and writes nothing.
C3_OffsetWithinLimits ==
    (/\ afgCall.op = "set_offset"
     /\ afg.inst = "open"
     /\ afgCall.result # "VisaIOError"
     /\ afgDev.imp \in {"50", "INF"})
    => LET limit == IF afgDev.imp = "50" THEN 10000 ELSE 20000
           o == afgCall.val
           A == afgDev.ampl
           legal == 2 * o + A <= 2 * limit /\ 2 * o - A >= -(2 * limit)
       IN /\ Len(afgCall.io) >= 2
          /\ afgCall.io[1].cmd = "OUTP1:IMP?"
          /\ afgCall.io[2].cmd = "SOUR1:VOLT?"
          /\ IF legal
             THEN /\ afgCall.result = "ok"
                  /\ Writes(afgCall.io) = <<Arg("SOUR1:VOLT:OFFS", o)>>
                  /\ afgDev.offs = o
             ELSE /\ afgCall.result = "ValueError"
                  /\ Writes(afgCall.io) = <<>>
          /\ (afgDev.imp = "50" /\ A = 2000 /\ o = 9500)
                => afgCall.result = "ValueError"

C3_Witness ==
    /\ afgCall.op = "set_offset" /\ afg.inst = "open"
    /\ afgDev.imp = "50" /\ afgDev.ampl = 2000 /\ afgCall.val = 9500
    /\ afgCall.result = "ValueError" /\ Len(afgCall.io) = 2

\* C5: a close() called on a driver whose session is already closed makes no
\* call of the transport's close and does not raise (AFG3011C, TBS2204B,
\* CurrentDriver).
C5_SecondCloseIsNoOp ==
    [][/\ afg.inst = "closed" =>
            /\ afgDev'.closes <= afgDev.closes
            /\ (afgCall'.op = "close" /\ afgVars' # afgVars)
                  => afgCall'.result = "ok"
       /\ tbs.inst = "closed" =>
            /\ tbsVisa'.closes <= tbsVisa.closes
            /\ (tbsCall'.op = "close" /\ tbsVars' # tbsVars)
                  => tbsCall'.result = "ok"
       /\ ql.inst = "closed" =>
            /\ qlBoard'.closes <= qlBoard.closes
            /\ (qlCall'.op = "close" /\ qlVars' # qlVars)
                  => qlCall'.result = "ok"]_vars

\* C8: a connect() of AFG3011C or TBS2204B that ends with RuntimeError (the
\* *IDN? handshake failed) leaves no open session in the driver.
C8_FailedHandshakeDisconnects ==
    /\ (afgCall.op = "connect" /\ afgCall.result = "RuntimeError")
          => afg.inst # "open"
    /\ (tbsCall.op = "connect" /\ tbsCall.result = "RuntimeError")
          => tbs.inst # "open"

\* C9: set_channel_scale on a valid channel of a connected oscilloscope that
\* answers the gain query g writes :CH<ch>:SCA s iff s * g is one of the
\* eleven vertical scales; otherwise it raises ValueError and writes nothing.
C9_ScaleLegalIffListed ==
    (/\ tbsCall.op = "set_channel_scale"
     /\ 1 <= tbsCall.ch /\ tbsCall.ch <= 4
     /\ tbs.inst = "open"
     /\ tbsCall.result # "VisaIOError")
    => IF \E b \in {2, 5, 10, 20, 50, 100, 200, 500, 1000, 2000, 5000} :
              tbsCall.val * tbsCall.shown = b * 10
       THEN /\ tbsCall.result = "ok"
            /\ Writes(tbsCall.io) =
                 <<[cmd |-> ":CH:SCA", ch |-> tbsCall.ch, arg |-> tbsCall.val]>>
       ELSE /\ tbsCall.result = "ValueError"
            /\ Writes(tbsCall.io) = <<>>

\* C4: set_channel(c) on a connected switch with N channels sends OSW_OUT_<c>
\* iff 1 <= c <= N; for c = 0, c > N and c < 0 it raises ValueError and sends
\* nothing; OSW_OUT_00 is only ever sent by reset().
C4_ChannelOneToN ==
    /\ oswCall.op = "set_channel" =>
          IF 1 <= oswCall.ch /\ oswCall.ch <= osw.channels
          THEN osw.inst = "open" =>
                  oswCall.io = <<[cmd |-> "OSW_OUT", ch |-> oswCall.ch, arg |-> 0]>>
          ELSE oswCall.result = "ValueError" /\ oswCall.io = <<>>
    /\ \A k \in DOMAIN oswCall.io :
          (oswCall.io[k].cmd = "OSW_OUT" /\ oswCall.io[k].ch = 0)
             => oswCall.op = "reset"

C4_Witness ==
    /\ oswCall.op = "set_channel" /\ osw.inst = "open"
    /\ osw.channels = 16 /\ oswCall.ch = 17
    /\ oswCall.result = "ValueError" /\ oswDev.channel = 16

\* C7: with the camera not open, start_capture, stop_capture, grab_frame and
\* the getters frame_size, frame_dims, width, height and frame_type raise
\* RuntimeError and call no SDK function.
C7_NotOpenRaisesBeforeDll ==
    (/\ xenCall.op \in {"start_capture", "stop_capture", "grab_frame",
                        "frame_size", "frame_dims", "width", "height",
                        "frame_type"}
     /\ ~xen._is_open)
    => (xenCall.result = "RuntimeError" /\ xenCall.dll = <<>>)

C7_Witness ==
    /\ xenCall.op = "grab_frame" /\ xenCall.result = "RuntimeError"
    /\ ~xen._is_open /\ xen._is_capturing /\ xenDll.handles = 0

\* The lists of the last set_current or set_voltage fail one of the three
\* checks: equal lengths, channels in 0..num_channels-1, values in [0, limit].
Q8ListsInvalid ==
    LET limit == IF q8Call.op = "set_current" THEN q8.imax ELSE q8.vmax
    IN \/ Len(q8Call.chans) # Len(q8Call.vals)
       \/ \E k \in DOMAIN q8Call.chans :
             q8Call.chans[k] < 0 \/ q8Call.chans[k] >= q8.num_channels
       \/ \E k \in DOMAIN q8Call.vals :
             q8Call.vals[k] < 0 \/ q8Call.vals[k] > limit

\* The last call wrote every listed channel, in list order, and the board
\* holds for each channel the last value listed for it.
Q8AllWritten ==
    LET out == IF q8Call.op = "set_current" THEN q8Board.i ELSE q8Board.v
    IN /\ q8Call.result = "ok"
       /\ q8Call.io = [k \in DOMAIN q8Call.chans |->
                          <<q8Call.chans[k], q8Call.vals[k]>>]
       /\ \A k \in DOMAIN q8Call.chans :
             (\A j \in DOMAIN q8Call.chans : j > k => q8Call.chans[j] # q8Call.chans[k])
                => out[q8Call.chans[k]] = q8Call.vals[k]

\* C10 as stated: set_current and set_voltage on a connected board raise
\* ValueError and write nothing when the lists fail a check, and otherwise
\* write every listed channel in list order (calls in which the board refused
\* a write are left aside).
C10_AllOrNothing ==
    (/\ q8Call.op \in {"set_current", "set_voltage"}
     /\ q8._q = "open"
     /\ q8Call.result # "QontrolError")
    => IF Q8ListsInvalid
       THEN q8Call.result = "ValueError" /\ q8Call.io = <<>>
       ELSE Q8AllWritten

\* C10, amended: the same, where a call made in the other mode (set_current on
\* a driver in 'v' mode, set_voltage on one in 'i' mode) also raises ValueError
\* and writes nothing.
C10_AllOrNothingInMode ==
    (/\ q8Call.op \in {"set_current", "set_voltage"}
     /\ q8._q = "open"
     /\ q8Call.result # "QontrolError")
    => IF \/ q8.init_mode # (IF q8Call.op = "set_current" THEN "i" ELSE "v")
          \/ Q8ListsInvalid
       THEN q8Call.result = "ValueError" /\ q8Call.io = <<>>
       ELSE Q8AllWritten

C10_Witness ==
    /\ q8Call.op = "set_current" /\ q8Call.result = "ok"
    /\ q8Call.chans = <<1, 0>> /\ q8Call.vals = <<Q8LowI, IMAX_DEFAULT>>
    /\ q8Board.i[1] = Q8LowI /\ q8Board.i[0] = IMAX_DEFAULT

\* C11: set_amplitude(a) on a connected generator whose queries are answered
\* writes SOUR1:VOLT a iff a is at least the minimum of the impedance mode
\* read in the call (0.020 Vpp for "50", 0.040 Vpp for "INF") and
\* offset + a/2 <= Vlimit and offset - a/2 >= -Vlimit for the offset read in
\* the call; otherwise it raises ValueError and writes nothing; the write is
\* the only write and the last transport operation of a successful call.
C11_AmplitudeWithinLimits ==
    (/\ afgCall.op = "set_amplitude"
     /\ afg.inst = "open"
     /\ afgCall.result # "VisaIOError"
     /\ afgDev.imp \in {"50", "INF"})
    => LET limit == IF afgDev.imp = "50" THEN 10000 ELSE 20000
           amin == IF afgDev.imp = "50" THEN 20 ELSE 40
           a == afgCall.val
           o == afgDev.offs
           legal == /\ a >= amin
                    /\ 2 * o + a <= 2 * limit
                    /\ 2 * o - a >= -(2 * limit)
           io == afgCall.io
       IN /\ Len(io) >= 1 /\ io[1].cmd = "OUTP1:IMP?"
          /\ a >= amin => (Len(io) >= 2 /\ io[2].cmd = "SOUR1:VOLT:OFFS?")
          /\ IF legal
             THEN /\ afgCall.result = "ok"
                  /\ Writes(io) = <<Arg("SOUR1:VOLT", a)>>
                  /\ io[Len(io)] = Arg("SOUR1:VOLT", a)
                  /\ afgDev.ampl = a
             ELSE /\ afgCall.result = "ValueError"
                  /\ Writes(io) = <<>>

C11_Witness ==
    /\ afgCall.op = "set_amplitude" /\ afg.inst = "open"
    /\ afgDev.imp = "50" /\ afgCall.val = 20 /\ afgDev.offs = 9500
    /\ afgCall.result = "ok" /\ Len(afgCall.io) = 3

\* C12: set_trigger_level(level) on a connected oscilloscope whose trigger
\* source is a channel and whose queries are answered asks for the trigger
\* source, then for that channel's scale and position, and writes :TRIG:A:LEV
\* level iff (-4.96 - position) * scale <= level <= (4.96 - position) * scale;
\* otherwise it raises ValueError and writes nothing.
C12_TriggerLevelInSpan ==
    (/\ tbsCall.op = "set_trigger_level"
     /\ tbs.inst = "open"
     /\ tbsCall.ch # 0
     /\ tbsCall.result # "VisaIOError")
    => LET io == tbsCall.io
           level == tbsCall.val
       IN /\ Len(io) >= 3
          /\ io[1].cmd = ":TRIG:A:EDGE:SOU?"
          /\ io[2].cmd = ":CH:SCA?" /\ io[2].ch = io[1].arg
          /\ io[3].cmd = ":CH:POS?" /\ io[3].ch = io[1].arg
          /\ IF /\ (-496 - io[3].arg) * io[2].arg <= level
                /\ level <= (496 - io[3].arg) * io[2].arg
             THEN /\ tbsCall.result = "ok"
                  /\ Writes(io) = <<[cmd |-> ":TRIG:A:LEV", ch |-> 0, arg |-> level]>>
                  /\ Len(io) = 4
             ELSE /\ tbsCall.result = "ValueError"
                  /\ Writes(io) = <<>>

C12_Witness ==
    /\ tbsCall.op = "set_trigger_level" /\ tbs.inst = "open"
    /\ tbsCall.result = "ValueError" /\ Len(tbsCall.io) = 3
    /\ tbsCall.io[3].arg = 100 /\ tbsCall.io[2].arg = 1000
    /\ tbsCall.val = 396001

\* The calls of XC_CloseCamera in a log of SDK calls.
CloseCameraCalls(dll) == SelectSeq(dll, LAMBDA e : e.fn = "XC_CloseCamera")

\* C13: close() calls XC_CloseCamera once, with the handle held, when the
\* camera is open (capturing or not) and leaves it not open; a close() that
\* follows a close() calls no SDK function and does not raise; no other
\* method calls XC_CloseCamera.
C13_CloseIdempotent ==
    [][/\ xenCall'.op = "close" =>
            /\ CloseCameraCalls(xenCall'.dll) =
                 IF xen._is_open
                 THEN <<[fn |-> "XC_CloseCamera", handle |-> xen._cam]>>
                 ELSE <<>>
            /\ xen._is_open => xen._cam # 0
            /\ ~xen'._is_open /\ xen'._cam = 0
            /\ xenCall.op = "close" =>
                  (xenCall'.result = "ok" /\ xenCall'.dll = <<>>)
       /\ xenCall'.op # "close" => CloseCameraCalls(xenCall'.dll) = <<>>
      ]_xenVars

C13_Witness ==
    /\ xenCall.op = "close" /\ xenCall.result = "ok" /\ xenCall.dll = <<>>
    /\ ~xen._is_open /\ xen._is_capturing

\* C14: when connect() (open, load_calibration, load_settings, start_capture)
\* returns normally the camera is open and capturing; when it raises the
\* camera is not open and no handle is held.
C14_ConnectAllOrNothing ==
    xenCall.op = "connect" =>
        IF xenCall.result = "ok"
        THEN xen._is_open /\ xen._is_capturing /\ xen._cam # 0
        ELSE ~xen._is_open /\ xen._cam = 0

\* C15: a connect() whose $V identification query failed or timed out raises
\* RuntimeError and leaves the driver without an open session.
C15_FailedIdentificationRaises ==
    (/\ qlCall.op = "connect"
     /\ SentCmd(qlCall.io, "$V") # <<>>
     /\ qlCall.ret = "Unknown device.")
    => (qlCall.result = "RuntimeError" /\ ql.inst # "open")

\* C18: a set_current or set_current_level call sends $U iff do_autoupdate is
\* set and the board answered the $D command with something other than
\* 'Ready'; the $U is sent once, after the $D, as the last command of the call;
\* with do_autoupdate not set these methods send no $U.
C18_UpdateIffAutoAndAccepted ==
    qlCall.op \in {"set_current", "set_current_level"} =>
        LET io == qlCall.io
            accepted == /\ SentCmd(io, "$D") # <<>>
                        /\ qlCall.ret \notin {"", "Ready"}
        IN /\ (SentCmd(io, "$U") # <<>>) <=> (ql.do_autoupdate /\ accepted)
           /\ Len(SentCmd(io, "$U")) <= 1
           /\ SentCmd(io, "$U") # <<>> =>
                 /\ io[Len(io)].cmd = "$U"
                 /\ \E k \in 1..(Len(io) - 1) : io[k].cmd = "$D"
           /\ ~ql.do_autoupdate => SentCmd(io, "$U") = <<>>

C18_Witness ==
    /\ qlCall.op = "set_current_level" /\ ql.do_autoupdate
    /\ qlCall.ret = "Ack" /\ qlCall.result = "ok"
    /\ qlCall.io[Len(qlCall.io)].cmd = "$U"

DataTransfer(io) ==
    SelectSeq(io, LAMBDA e : e.cmd \in {":DAT:ENC", ":DAT:SOU", ":DAT:STAR",
                                        ":DAT:STOP", ":CURV?", ":WFMO:YMULT?",
                                        ":WFMO:YOFF?", ":WFMO:YZERO?",
                                        ":WFMO:XINCR?", ":WFMO:XZERO?"})

\* C19: get_waveform(ch) raises ValueError and sends no data-transfer command
\* when ch is outside 1..4, and when the oscilloscope answers the display
\* query of the channel with OFF.
C19_WaveformRejectedBeforeTransfer ==
    (/\ tbsCall.op = "get_waveform"
     /\ \/ ~(1 <= tbsCall.ch /\ tbsCall.ch <= 4)
        \/ /\ tbs.inst = "open"
           /\ tbsCall.result # "VisaIOError"
           /\ tbsCall.io # <<>> /\ tbsCall.io[1].arg = 0)
    => /\ tbsCall.result = "ValueError"
       /\ DataTransfer(tbsCall.io) = <<>>
       /\ ~(1 <= tbsCall.ch /\ tbsCall.ch <= 4) => tbsCall.io = <<>>

C19_Witness ==
    /\ tbsCall.op = "get_waveform" /\ tbsCall.ch = 1 /\ tbs.inst = "open"
    /\ tbsCall.result = "ValueError"
    /\ tbsCall.io = <<[cmd |-> ":SEL:CH?", ch |-> 1, arg |-> 0]>>

\* C20: a set_channel(c) that sent its command returns normally on the reply
\* OSW_OUT_OK, raises ValueError on OSW_OUT_OVERFLOW and RuntimeError on any
\* other reply; a reset() that sent its command returns normally on
\* OSW_OUT_OK and raises RuntimeError on any other reply.
C20_ReplyClassified ==
    (/\ oswCall.op \in {"set_channel", "reset"}
     /\ oswCall.io # <<>>
     /\ oswCall.ret # "timeout")
    => IF oswCall.ret = "OSW_OUT_OK" THEN oswCall.result = "ok"
       ELSE IF oswCall.op = "set_channel" /\ oswCall.ret = "OSW_OUT_OVERFLOW"
       THEN oswCall.result = "ValueError"
       ELSE oswCall.result = "RuntimeError"

C20_Witness ==
    /\ oswCall.op = "set_channel" /\ oswCall.ret = "OSW_OUT_OVERFLOW"
    /\ oswCall.result = "ValueError" /\ oswCall.io = <<Out(oswCall.ch)>>

\* C21: a get_channel() or idn() whose reply does not start with the expected
\* prefix raises RuntimeError; the call leaves the session open and the driver
\* object (model_info included) as it was, and a get_channel() or idn() that
\* follows it and gets a well-formed reply returns normally.
C21_PrefixErrorIsLocal ==
    [][ /\ (/\ oswCall'.op \in {"get_channel", "idn"}
            /\ oswCall'.io # <<>>
            /\ oswCall'.ret = "prefix")
           => /\ oswCall'.result = "RuntimeError"
              /\ osw' = osw /\ osw'.inst = "open"
              /\ oswDev' = oswDev
        /\ (/\ oswCall.op \in {"get_channel", "idn"}
            /\ oswCall.ret = "prefix"
            /\ oswCall'.op \in {"get_channel", "idn"}
            /\ oswCall'.ret \in {"channel", "model"})
           => oswCall'.result = "ok" ]_oswVars

C21_Witness ==
    /\ oswCall.op = "get_channel" /\ oswCall.ret = "prefix"
    /\ oswCall.result = "RuntimeError" /\ oswCall.io = <<Cmd("OSW_OUT_?")>>
    /\ osw = [inst |-> "open", channels |-> 16] /\ oswDev.channel = 3

\* C22: with a switch that keeps the last channel it acknowledged, a
\* set_channel(c) that returns normally leaves the switch on c, a reset() that
\* returns normally leaves it on 0, no other call moves it, and a
\* get_channel() that returns normally returns the channel the switch is on:
\* the channel of the last successful set_channel, or 0 after a reset.
C22_SetGetRoundTrip ==
    [][ /\ IF oswCall'.op = "set_channel" /\ oswCall'.result = "ok"
           THEN oswDev'.channel = oswCall'.ch
           ELSE IF oswCall'.op = "reset" /\ oswCall'.result = "ok"
           THEN oswDev'.channel = 0
           ELSE oswDev'.channel = oswDev.channel
        /\ (oswCall'.op = "get_channel" /\ oswCall'.result = "ok")
           => oswCall'.shown = oswDev.channel ]_oswVars

C22_Witness ==
    /\ oswCall.op = "get_channel" /\ oswCall.result = "ok"
    /\ oswCall.shown = 16 /\ oswDev.channel = 16 /\ osw.channels = 16

\* C23: whatever open, close, start_capture, stop_capture and connect calls
\* were made and whichever SDK calls failed, _is_capturing implies _is_open,
\* and _is_open holds iff the camera handle _cam is not None.
C23_LifecycleInvariant ==
    /\ xen._is_capturing => xen._is_open
    /\ xen._is_open <=> xen._cam # 0

\* The joint output-voltage condition on the instrument's settings:
\* |offset| + amplitude / 2 <= Vlimit(impedance mode).
JointVoltageOk(dev) ==
    /\ dev.imp \in DOMAIN V_LIMIT
    /\ 2 * (IF dev.offs < 0 THEN -dev.offs ELSE dev.offs) + dev.ampl
          <= 2 * V_LIMIT[dev.imp]

\* C24: a set_amplitude, set_offset or set_output_impedance call made on
\* settings that satisfy |offset| + amplitude / 2 <= Vlimit(impedance mode)
\* leaves settings that satisfy it.
C24_JointVoltagePreserved ==
    [][ (/\ JointVoltageOk(afgDev)
         /\ afgCall'.op \in {"set_amplitude", "set_offset", "set_output_impedance"})
        => JointVoltageOk(afgDev') ]_afgVars

\* C25: in current mode the last current commanded on every channel is
\* within [0, imax] for the driver's present imax, and in voltage mode the
\* last voltage commanded on every channel is within [0, vmax].
C25_OutputsWithinCompliance ==
    /\ q8.init_mode = "i" =>
          \A c \in Q8Chans : 0 <= q8Board.i[c] /\ q8Board.i[c] <= q8.imax
    /\ q8.init_mode = "v" =>
          \A c \in Q8Chans : 0 <= q8Board.v[c] /\ q8Board.v[c] <= q8.vmax

\* C26: a call made while the camera is not open, other than open() and
\* connect(), which open it, calls no SDK function; this covers
\* load_calibration, load_settings and the calibration_file and settings_file
\* setters.
C26_NoDllCallWhenNotOpen ==
    [][ (~xen._is_open /\ xenCall'.op \notin {"open", "connect"})
        => xenCall'.dll = <<>> ]_xenVars

====
